---- MODULE Spec2Model ----
(***************************************************************************)
(* Model of FileOrganizer (src/main.py): one run of organize_files over a  *)
(* source tree and a destination tree, with the command line of main(),    *)
(* the size scan, the disk-space gate, the confirmation prompt, the        *)
(* transfer walk with collision-safe naming, and the final summary.        *)
(* The source and the destination are disjoint trees.                      *)
(***************************************************************************)
EXTENDS Integers, Sequences, FiniteSets, TLC

\* ------------------------------------------------------------------ bounds
MaxFiles == 2       \* entries under the source directory
MaxAvail == 1       \* largest free-space figure the file system reports
MaxRuns == 2        \* invocations of the program in SpecRerun
MaxStatFailures == 1 \* files whose stat fails during one size scan

\* ------------------------------------------------------- the environment
D(y, m) == [year |-> y, month |-> m]

\* datetime.datetime.now() of the run
Now == D(2026, 11)

\* Entries rglob('*') can yield: regular files and directories, with the
\* stem and suffix pathlib reports for their names.  ts_ok is FALSE for a
\* file whose timestamp datetime.fromtimestamp rejects.
E(d, st, su, sz, bt, mt, ok, k) ==
    [dir |-> d, stem |-> st, suffix |-> su, size |-> sz,
     st_birthtime |-> bt, st_mtime |-> mt, ts_ok |-> ok, kind |-> k]

Candidates ==
    { E("d1", "a",   ".jpg", 1, D(2023, 5), D(2023, 6), TRUE, "file"),
      E("d2", "a",   ".jpg", 9, D(2023, 5), D(2023, 5), TRUE, "file"),
      E("d1", "a_1", ".jpg", 0, D(2023, 5), D(2023, 5), TRUE, "file"),
      E("d2", "A",   ".JPG", 1, D(1999, 12), D(1999, 12), FALSE, "file"),
      E("d1", "b",   ".exe", 9, D(2023, 5), D(2023, 5), TRUE, "file"),
      E("d1", "c",   ".png", 0, D(2023, 5), D(2023, 5), TRUE, "dir") }

Name(e) == e.stem \o e.suffix
PathOf(e) == <<e.dir, Name(e)>>

\* str.lower() on the suffixes that occur
Lower(s) ==
    CASE s = ".JPG" -> ".jpg"
      [] s = ".Jpg" -> ".jpg"
      [] s = ".EXE" -> ".exe"
      [] OTHER -> s

supported_extensions ==
    { ".jpg", ".jpeg", ".png", ".gif", ".bmp", ".tiff", ".tif", ".webp",
      ".heic", ".heif", ".raw", ".cr2", ".nef", ".arw", ".dng",
      ".psd", ".ai", ".eps", ".pdf", ".indd", ".psb",
      ".mp4", ".mov", ".avi", ".mkv", ".wmv", ".flv", ".webm", ".m4v",
      ".qt", ".3gp", ".mpg", ".mpeg", ".m2v", ".mts", ".m2ts",
      ".mp3", ".wav", ".flac", ".aac", ".ogg", ".wma", ".m4a",
      ".doc", ".docx", ".txt", ".rtf", ".pages" }

is_supported_file_AnySuffix(e) == e.suffix # ""

is_supported_file(e) == Lower(e.suffix) \in supported_extensions

is_file(e) == e.kind = "file"

\* ------------------------------------------------------------- variables
VARIABLES
    args,             \* the parsed command line of main()
    dry_run, copy_mode, skip_confirm,
    processed_files, skipped_files,
    source_exists,    \* self.source_dir.exists()
    has_birthtime,    \* the platform's stat result has st_birthtime
    walk,             \* the entries rglob('*') yields, in its order
    srcFiles,         \* source path -> content, for the files present
    destDirs,         \* existing directories of the destination tree
    destFiles,        \* destination path -> content
    availableBytes,   \* f_bavail * f_frsize of the destination
    pc,               \* position inside organize_files
    total_size, file_count,
    available_space,  \* result of get_available_space, "inf" on failure
    idx,              \* position of the transfer walk
    prompted,         \* confirm_operation was called
    response,         \* the answer it returned on
    summary,          \* what print_final_summary printed, "none" before
    outcome,          \* source path -> what the transfer walk did with it
    prevOutcome,      \* outcome of the previous invocation
    run               \* number of the invocation

vars == <<args, dry_run, copy_mode, skip_confirm, processed_files,
          skipped_files, source_exists, has_birthtime, walk, srcFiles,
          destDirs, destFiles, availableBytes, pc, total_size, file_count,
          available_space, idx, prompted, response, summary, outcome,
          prevOutcome, run>>

fsVars == <<srcFiles, destDirs, destFiles>>
envVars == <<source_exists, has_birthtime, walk, availableBytes>>
cfgVars == <<args, dry_run, copy_mode, skip_confirm>>

\* ------------------------------------------------------------ sequences
RECURSIVE SeqsOver(_, _)
SeqsOver(S, n) ==
    IF n = 0 THEN { <<>> }
    ELSE LET shorter == SeqsOver(S, n - 1)
         IN shorter \cup
            { Append(s, e) : s \in { t \in shorter : Len(t) = n - 1 },
                             e \in S }

Distinct(s) == \A a, b \in 1..Len(s) : a # b => PathOf(s[a]) # PathOf(s[b])

\* rglob yields the tree directory by directory: the entries of one
\* directory follow one another, in any order
ByDirectory(s) ==
    \A a, b, c \in 1..Len(s) :
      (a < b /\ b < c /\ s[a].dir = s[c].dir) => s[b].dir = s[a].dir

Range(s) == { s[k] : k \in 1..Len(s) }

RECURSIVE SumSize(_)
SumSize(S) ==
    IF S = {} THEN 0
    ELSE LET e == CHOOSE x \in S : TRUE IN e.size + SumSize(S \ {e})

\* ------------------------------------------- main(): flags of the run
\* dry_run = not args.execute; args.dry_run is parsed and never read, so
\* the model leaves it out of args
MainDryRun(a) == ~a.execute
MainCopyMode(a) == a.copy
MainSkipConfirm(a) == a.yes

Args == [execute : BOOLEAN, copy : BOOLEAN, yes : BOOLEAN]

\* ------------------------------------------------ the destination tree
Root == <<>>
Strftime_Y(d) == ToString(d.year)
Strftime_m(d) == IF d.month < 10 THEN "0" \o ToString(d.month)
                 ELSE ToString(d.month)

\* destination_path = self.backup_dir / year / month
DestinationPath(d) == <<Strftime_Y(d), Strftime_m(d)>>

\* mkdir(parents=True, exist_ok=True)
Mkdir(dirs, p) == dirs \cup { SubSeq(p, 1, k) : k \in 0..Len(p) }

Bucket0 == DestinationPath(D(2023, 5))

\* destination trees a run can start on: missing, empty, or holding files
DestInits ==
    { [dirs |-> {}, files |-> <<>>],
      [dirs |-> {Root}, files |-> <<>>],
      [dirs |-> Mkdir({}, Bucket0),
       files |-> (Append(Bucket0, "a.jpg") :> <<"pre", "1">>)
                 @@ (Append(Bucket0, "a_1.jpg") :> <<"pre", "2">>)] }

\* destination_file.exists()
Exists(files, dirs, p) == p \in DOMAIN files \/ p \in dirs

\* ---------------------------------------------------- get_file_date
get_file_date(e, birth) ==
    IF ~e.ts_ok THEN Now
    ELSE IF birth THEN e.st_birthtime ELSE e.st_mtime

\* ------------------------------------------- required space, as floats
\* total_size * 0.1 in IEEE double arithmetic: 0.1 is the double
\* 3602879701896397 / 2^55; the product is held in four base-2^16 limbs,
\* least significant first, and rounded to 53 significant bits, ties to
\* even.  The limbs denote limbs / 2^55.
Limb == 65536
TenthLimbs == <<52429, 52428, 52428, 12>>

RECURSIVE BitLen(_)
BitLen(n) == IF n = 0 THEN 0 ELSE 1 + BitLen(n \div 2)

RECURSIVE Pow2(_)
Pow2(k) == IF k = 0 THEN 1 ELSE 2 * Pow2(k - 1)

\* limbs plus v * Limb^(j-1), carried through
RECURSIVE AddAt(_, _, _)
AddAt(x, j, v) ==
    IF v = 0 \/ j > Len(x) THEN x
    ELSE LET c == x[j] + v
         IN AddAt([x EXCEPT ![j] = c % Limb], j + 1, c \div Limb)

ExactProduct(t) ==
    LET c1 == t * TenthLimbs[1]
        c2 == t * TenthLimbs[2] + c1 \div Limb
        c3 == t * TenthLimbs[3] + c2 \div Limb
        c4 == t * TenthLimbs[4] + c3 \div Limb
    IN <<c1 % Limb, c2 % Limb, c3 % Limb, c4>>

RoundDouble(x) ==
    LET drop == BitLen(x[4]) - 5
    IN IF drop <= 0 THEN x
       ELSE LET unit == Pow2(drop)
                rest == x[1] % unit
                kept == [x EXCEPT ![1] = x[1] - rest]
                up == \/ 2 * rest > unit
                      \/ 2 * rest = unit /\ (x[1] \div unit) % 2 = 1
            IN IF up THEN AddAt(kept, 1, unit) ELSE kept

\* total_size * 0.1
TimesTenth(t) == RoundDouble(ExactProduct(t))

\* a < x for an int a and a double x: Python compares them exactly
IntLessFloat(a, x) ==
    \/ a * 128 < x[4]
    \/ a * 128 = x[4] /\ (x[3] > 0 \/ x[2] > 0 \/ x[1] > 0)

Fin(n) == [finite |-> TRUE, bytes |-> n]
Inf == [finite |-> FALSE, bytes |-> 0]

InsufficientSpace_OrEqual(avail, total, copy) ==
    /\ avail.finite
    /\ IF copy THEN avail.bytes <= total
       ELSE ~IntLessFloat(avail.bytes + 1, TimesTenth(total))

\* available_space < required_space (lines 244-251)
InsufficientSpace(avail, total, copy) ==
    /\ avail.finite
    /\ IF copy THEN avail.bytes < total
       ELSE IntLessFloat(avail.bytes, TimesTenth(total))

\* ------------------------------------------------------- initial state
NoSummary == [printed |-> FALSE, status |-> "", operation |-> "",
              processed |-> 0, skipped |-> 0]

Init ==
    /\ args \in Args
    /\ dry_run = MainDryRun(args)
    /\ copy_mode = MainCopyMode(args)
    /\ skip_confirm = MainSkipConfirm(args)
    /\ processed_files = 0
    /\ skipped_files = 0
    /\ source_exists \in BOOLEAN
    /\ has_birthtime \in BOOLEAN
    /\ walk \in { s \in SeqsOver(Candidates, MaxFiles) :
                    /\ Distinct(s)
                    /\ ByDirectory(s)
                    /\ ~source_exists => s = <<>> }
    /\ srcFiles = [p \in { PathOf(e) : e \in { x \in Range(walk) : is_file(x) } }
                     |-> p]
    /\ \E d \in DestInits : destDirs = d.dirs /\ destFiles = d.files
    /\ availableBytes \in 0..MaxAvail
    /\ pc = "start"
    /\ total_size = 0
    /\ file_count = 0
    /\ available_space = Inf
    /\ idx = 1
    /\ prompted = FALSE
    /\ response = "<none>"
    /\ summary = NoSummary
    /\ outcome = <<>>
    /\ prevOutcome = <<>>
    /\ run = 1

\* -------------------------------------------------- organize_files
\* lines 210-226: the precondition and the decision to size up the job
Start ==
    /\ pc = "start"
    /\ pc' = IF ~source_exists THEN "done"
             ELSE IF copy_mode \/ ~dry_run THEN "scan" ELSE "walk"
    /\ UNCHANGED <<cfgVars, envVars, fsVars, processed_files, skipped_files,
                   total_size, file_count, available_space, idx, prompted,
                   response, summary, outcome, prevOutcome, run>>

Qualifying(w) == { e \in Range(w) : is_file(e) /\ is_supported_file(e) }

\* where organize_files goes after the scan (lines 229, 241, 274)
AfterScan(total, dry) ==
    IF total > 0 /\ ~dry THEN "space" ELSE "walk"

\* calculate_total_size: a file whose stat fails is left out of the totals
CalculateTotalSize ==
    /\ pc = "scan"
    /\ \E failing \in { f \in SUBSET Qualifying(walk) :
                           Cardinality(f) <= MaxStatFailures } :
         LET counted == Qualifying(walk) \ failing
         IN /\ total_size' = SumSize(counted)
            /\ file_count' = Cardinality(counted)
            /\ pc' = AfterScan(SumSize(counted), dry_run)
    /\ UNCHANGED <<cfgVars, envVars, fsVars, processed_files, skipped_files,
                   available_space, idx, prompted, response, summary,
                   outcome, prevOutcome, run>>

\* get_available_space: os.statvfs raises on a destination directory that
\* does not exist, and the call then answers float('inf')
get_available_space(bytes, dirs) ==
    IF Root \in dirs THEN Fin(bytes) ELSE Inf

\* where organize_files goes when the space suffices (line 274)
AfterSpace(dry, skip) == IF ~dry /\ ~skip THEN "confirm" ELSE "walk"

\* lines 241-269
CheckSpace ==
    /\ pc = "space"
    /\ LET space == get_available_space(availableBytes, destDirs)
           next == IF InsufficientSpace(space, total_size, copy_mode)
                   THEN "done"
                   ELSE AfterSpace(dry_run, skip_confirm)
       IN /\ available_space' = space
          /\ pc' = next
    /\ UNCHANGED <<cfgVars, envVars, fsVars, processed_files, skipped_files,
                   total_size, file_count, idx, prompted, response, summary, outcome, prevOutcome,
                   run>>

\* what the user types at the prompt; Interrupt is a KeyboardInterrupt
Interrupt == "<interrupt>"
Inputs == { " Y ", "n", "", "maybe", Interrupt }

\* input(...).strip().lower()
StripLower(r) ==
    CASE r = " Y " -> "y"
      [] r = " YES " -> "yes"
      [] r = "N" -> "n"
      [] OTHER -> r

\* confirm_operation: "yes", "no", or "again" for another turn of the loop
confirm_operation(r) ==
    IF r = Interrupt THEN "no"
    ELSE IF StripLower(r) \in {"y", "yes"} THEN "yes"
    ELSE IF StripLower(r) \in {"n", "no", ""} THEN "no"
    ELSE "again"

\* lines 274-277
ConfirmOperation ==
    /\ pc = "confirm"
    /\ \E r \in Inputs :
         /\ prompted' = TRUE
         /\ response' = r
         /\ LET next == CASE confirm_operation(r) = "yes" -> "walk"
                           [] confirm_operation(r) = "no" -> "done"
                           [] OTHER -> "confirm"
            IN pc' = next
    /\ UNCHANGED <<cfgVars, envVars, fsVars, processed_files, skipped_files,
                   total_size, file_count, available_space, idx, summary, outcome, prevOutcome, run>>

create_destination_structure_IgnoresDryRun(dirs, date, dry) ==
    Mkdir(dirs, DestinationPath(date))

\* create_destination_structure: the directories after the call
create_destination_structure(dirs, date, dry) ==
    IF ~dry THEN Mkdir(dirs, DestinationPath(date)) ELSE dirs

ProbeName_NoExistsCheck(files, dirs, dir, stem, suffix, counter) ==
    Append(dir, stem \o "_" \o ToString(counter) \o suffix)

\* process_file, lines 175-182: the first name of the series
\* stem_1suffix, stem_2suffix, ... that does not exist
RECURSIVE ProbeName(_, _, _, _, _, _)
ProbeName(files, dirs, dir, stem, suffix, counter) ==
    LET new_name == stem \o "_" \o ToString(counter) \o suffix
    IN IF Exists(files, dirs, Append(dir, new_name))
       THEN ProbeName(files, dirs, dir, stem, suffix, counter + 1)
       ELSE Append(dir, new_name)

\* process_file, lines 172-182: destination_file
DestinationFile(files, dirs, dir, e) ==
    IF Exists(files, dirs, Append(dir, Name(e)))
    THEN ProbeName(files, dirs, dir, e.stem, e.suffix, 1)
    ELSE Append(dir, Name(e))

Put(f, k, v) == (k :> v) @@ f
Remove(f, k) == [x \in DOMAIN f \ {k} |-> f[x]]

\* what shutil.copy2 / shutil.move leave behind
Results == { "ok", "disk_full", "error" }

process_file_FailureCounted(dry, result) == TRUE

\* process_file, lines 186-206: its return value
process_file(dry, result) == dry \/ result = "ok"

SourceAfter_MoveKeepsSource(src, p, dry, copy, result) == src

\* the source tree after process_file
SourceAfter(src, p, dry, copy, result) ==
    IF ~dry /\ ~copy /\ result = "ok" THEN Remove(src, p) ELSE src

\* content of a truncated file
Partial == <<"partial", "">>

\* the destination files after process_file; a failed copy can leave a
\* truncated file behind
DestAfter(files, dest, content, dry, result, partial) ==
    IF dry THEN files
    ELSE IF result = "ok" THEN Put(files, dest, content)
    ELSE IF partial THEN Put(files, dest, Partial)
    ELSE files

Rec(res, dest, date) == [result |-> res, dest |-> dest, date |-> date]

\* lines 280-296: one turn of the transfer loop
WalkStep ==
    /\ pc = "walk"
    /\ idx <= Len(walk)
    /\ idx' = idx + 1
    /\ LET e == walk[idx]
           p == PathOf(e)
       IN IF ~is_file(e)
          THEN UNCHANGED <<fsVars, processed_files, skipped_files, outcome>>
          ELSE IF ~is_supported_file(e)
          THEN /\ skipped_files' = skipped_files + 1
               /\ outcome' = Put(outcome, p, Rec("unsupported", <<>>, Now))
               /\ UNCHANGED <<fsVars, processed_files>>
          ELSE \E result \in Results, partial \in BOOLEAN :
                 LET file_date == get_file_date(e, has_birthtime)
                     dirs == create_destination_structure(destDirs, file_date, dry_run)
                     dest == DestinationFile(destFiles, dirs,
                                             DestinationPath(file_date), e)
                     done == process_file(dry_run, result)
                 IN /\ destDirs' = dirs
                    /\ destFiles' = DestAfter(destFiles, dest, srcFiles[p],
                                              dry_run, result, partial)
                    /\ srcFiles' = SourceAfter(srcFiles, p, dry_run,
                                               copy_mode, result)
                    /\ processed_files' = processed_files + (IF done THEN 1 ELSE 0)
                    /\ skipped_files' = skipped_files + (IF done THEN 0 ELSE 1)
                    /\ outcome' = Put(outcome, p,
                                      Rec(IF dry_run THEN "dry"
                                          ELSE IF result = "ok" THEN "ok"
                                          ELSE "failed",
                                          dest, file_date))
    /\ UNCHANGED <<cfgVars, envVars, pc, total_size, file_count,
                   available_space, prompted, response, summary,
                   prevOutcome, run>>

\* print_final_summary
print_final_summary(dry, copy, processed, skipped) ==
    [printed |-> TRUE,
     status |-> IF dry THEN "DRY RUN" ELSE "COMPLETED",
     operation |-> IF copy THEN "COPY" ELSE "MOVE",
     processed |-> processed, skipped |-> skipped]

\* line 299, after the loop
Finish ==
    /\ pc = "walk"
    /\ idx > Len(walk)
    /\ summary' = print_final_summary(dry_run, copy_mode, processed_files,
                                      skipped_files)
    /\ pc' = "done"
    /\ UNCHANGED <<cfgVars, envVars, fsVars, processed_files, skipped_files,
                   total_size, file_count, available_space, idx, prompted,
                   response, outcome, prevOutcome, run>>

\* main() once more: after a completed preview the user runs the same
\* command with --execute (and with or without --yes) on the same trees
ExecuteAfterPreview ==
    /\ pc = "done"
    /\ run < MaxRuns
    /\ dry_run
    /\ summary.printed
    /\ \E a \in Args :
         /\ a.execute
         /\ a.copy = args.copy
         /\ args' = a
         /\ dry_run' = MainDryRun(a)
         /\ copy_mode' = MainCopyMode(a)
         /\ skip_confirm' = MainSkipConfirm(a)
    /\ processed_files' = 0
    /\ skipped_files' = 0
    /\ pc' = "start"
    /\ total_size' = 0
    /\ file_count' = 0
    /\ available_space' = Inf
    /\ idx' = 1
    /\ prompted' = FALSE
    /\ response' = "<none>"
    /\ summary' = NoSummary
    /\ prevOutcome' = outcome
    /\ outcome' = <<>>
    /\ run' = run + 1
    /\ UNCHANGED <<envVars, fsVars>>

Next ==
    \/ Start
    \/ CalculateTotalSize
    \/ CheckSpace
    \/ ConfirmOperation
    \/ WalkStep
    \/ Finish

Spec == Init /\ [][Next]_vars

NextRerun == Next \/ ExecuteAfterPreview

SpecRerun == Init /\ [][NextRerun]_vars

\* the interpreter runs the loop of line 280 and the call of line 299 to
\* their end: neither waits for anything.  Transfers can fail only in runs
\* started with --execute on an existing source; FairSpec is those runs,
\* on a destination with the most free space the bounds allow.
InitExecute ==
    Init /\ args.execute /\ source_exists /\ availableBytes = MaxAvail

FairSpec ==
    InitExecute /\ [][Next]_vars /\ WF_vars(WalkStep) /\ WF_vars(Finish)

\* =================================================== properties
EntryAt(p) == CHOOSE e \in Range(walk) : PathOf(e) = p

Files(w) == { e \in Range(w) : e.kind = "file" }

\* the files with a supported extension, and the others
SupportedFiles(w) == { e \in Files(w) : Lower(e.suffix) \in supported_extensions }
UnsupportedFiles(w) == Files(w) \ SupportedFiles(w)

\* the source tree as the run found it
InitialSource == [p \in { PathOf(e) : e \in Files(walk) } |-> p]

\* creation time if the platform has it, else modification time, else the
\* current time when the date cannot be read
ResolvedDate(e) ==
    IF ~e.ts_ok THEN Now
    ELSE IF has_birthtime THEN e.st_birthtime ELSE e.st_mtime

YearName(y) ==
    CASE y = 1999 -> "1999" [] y = 2023 -> "2023" [] y = 2026 -> "2026"

MonthNames == <<"01", "02", "03", "04", "05", "06",
                "07", "08", "09", "10", "11", "12">>

BucketOf(d) == <<YearName(d.year), MonthNames[d.month]>>

Dir(path) == SubSeq(path, 1, 2)

Processed == { p \in DOMAIN outcome : outcome[p].result = "ok" }
Failed == { p \in DOMAIN outcome : outcome[p].result = "failed" }

\* C1: in a run that is not a dry run, every supported file counted as
\* processed is a file of destination/YYYY/MM for the year and month of its
\* resolved date, holding the file's content; after a move it is gone from
\* its source path, after a copy it is still there, unchanged.
C1_ProcessedFilesArePlaced ==
    ~dry_run =>
      \A p \in Processed :
        LET o == outcome[p]
            e == EntryAt(p)
        IN /\ e \in SupportedFiles(walk)
           /\ o.date = ResolvedDate(e)
           /\ Len(o.dest) = 3
           /\ Dir(o.dest) = BucketOf(ResolvedDate(e))
           /\ Dir(o.dest) \in destDirs
           /\ o.dest \in DOMAIN destFiles
           /\ destFiles[o.dest] = p
           /\ IF copy_mode
              THEN p \in DOMAIN srcFiles /\ srcFiles[p] = p
              ELSE p \notin DOMAIN srcFiles

\* a finished move run that processed two files, one of them into the
\* bucket of the current month
C1_Witness ==
    /\ pc = "done"
    /\ ~dry_run
    /\ ~copy_mode
    /\ Cardinality(Processed) = 2
    /\ \E p \in Processed : outcome[p].date = Now

\* ---------------------------------------------------------------- C2
Present(p) == \E d \in DOMAIN destFiles : destFiles[d] = p

\* two distinct supported source files with one name and one bucket
CollidingPairs ==
    { pq \in SupportedFiles(walk) \X SupportedFiles(walk) :
        /\ PathOf(pq[1]) # PathOf(pq[2])
        /\ Name(pq[1]) = Name(pq[2])
        /\ ResolvedDate(pq[1]) = ResolvedDate(pq[2]) }

Taken(name, dir) == Exists(destFiles, destDirs', Append(dir, name))

Numbered(e, n) == e.stem \o "_" \o ToString(n) \o e.suffix

\* the name the collision policy allows for entry e in directory dir, given
\* the destination before the transfer
PolicyName(e, dir, nm) ==
    IF ~Taken(Name(e), dir) THEN nm = Name(e)
    ELSE \E n \in 1..(Cardinality(DOMAIN destFiles) + Cardinality(destDirs') + 1) :
           /\ nm = Numbered(e, n)
           /\ ~Taken(nm, dir)
           /\ \A k \in 1..(n - 1) : Taken(Numbered(e, k), dir)

C3_DryRunMutatesNothing ==
    [][ ~args.execute =>
        /\ UNCHANGED <<srcFiles, destDirs, destFiles>>
        /\ pc' = "done" =>
             /\ processed_files' = Cardinality(SupportedFiles(walk))
             /\ skipped_files' = Cardinality(UnsupportedFiles(walk)) ]_vars

\* a finished preview of a copy, with --yes, of a supported file and an
\* unsupported one into a destination that does not exist
C3_Witness ==
    /\ pc = "done"
    /\ ~args.execute /\ args.copy /\ args.yes
    /\ summary.printed /\ summary.status = "DRY RUN"
    /\ processed_files = 1
    /\ skipped_files = 1
    /\ destDirs = {}

\* ---------------------------------------------------------------- C4
\* the free space of the destination can be read: the destination exists
SpaceKnown == IF dry_run THEN Root \in destDirs ELSE available_space.finite

\* C4: in copy mode, when the destination has fewer bytes available than
\* the qualifying files found by the scan add up to, no file is counted as
\* processed.
C4_SpaceGateCopy ==
    (/\ copy_mode
     /\ pc \in {"walk", "done"}
     /\ SpaceKnown
     /\ availableBytes < total_size)
    => processed_files = 0

\* ---------------------------------------------------------------- C5
\* C5: in a run that is neither a dry run nor started with --yes, a step
\* changes the source or the destination only after the user answered y or
\* yes at the prompt, and a run that ends on any other answer ends with
\* both trees as they were and with processed = skipped = 0.
C5_ConfirmationGate ==
    [][ (~dry_run /\ ~skip_confirm) =>
        /\ <<srcFiles, destDirs, destFiles>>' # <<srcFiles, destDirs, destFiles>>
             => (prompted /\ StripLower(response) \in {"y", "yes"})
        /\ (pc = "confirm" /\ pc' = "done") =>
             /\ srcFiles' = InitialSource
             /\ [dirs |-> destDirs', files |-> destFiles'] \in DestInits
             /\ processed_files' = 0
             /\ skipped_files' = 0 ]_vars

\* ---------------------------------------------------------------- C6
NeverInDestination(e) == \A d \in DOMAIN destFiles : destFiles[d] # PathOf(e)

\* C6 as stated: every run on an existing source directory ends with each
\* unsupported file counted as skipped, and none of them in the destination.
C6_AsStated ==
    (pc = "done" /\ source_exists) =>
      /\ \A e \in UnsupportedFiles(walk) :
           /\ PathOf(e) \in DOMAIN outcome
           /\ NeverInDestination(e)
      /\ skipped_files >= Cardinality(UnsupportedFiles(walk))

\* C6 (amended): the transfer walk counts every unsupported file it visits
\* as skipped, by exactly 1 and without counting it as processed or touching
\* either tree; a run that reaches its final summary has visited all of
\* them; and in no run, of any mode, is the content of an unsupported file
\* found in the destination.
C6_UnsupportedSkipped ==
    [][ /\ \A e \in UnsupportedFiles(walk) :
             /\ NeverInDestination(e)'
             /\ (PathOf(e) \in DOMAIN outcome' \ DOMAIN outcome) =>
                  /\ skipped_files' = skipped_files + 1
                  /\ processed_files' = processed_files
                  /\ outcome'[PathOf(e)].result = "unsupported"
                  /\ UNCHANGED <<srcFiles, destDirs, destFiles>>
             /\ (PathOf(e) \in DOMAIN outcome) =>
                  /\ outcome'[PathOf(e)] = outcome[PathOf(e)]
                  /\ skipped_files' >= skipped_files
        /\ summary'.printed =>
             /\ \A e \in UnsupportedFiles(walk) : PathOf(e) \in DOMAIN outcome'
             /\ skipped_files' = Cardinality(UnsupportedFiles(walk))
                                 + Cardinality(Failed') ]_vars

\* a finished move run that skipped b.exe and moved a file
C6_Witness ==
    /\ pc = "done"
    /\ summary.printed
    /\ ~dry_run
    /\ \E e \in UnsupportedFiles(walk) :
         /\ Name(e) = "b.exe"
         /\ outcome[PathOf(e)].result = "unsupported"
    /\ skipped_files = 1
    /\ processed_files = 1

\* ---------------------------------------------------------------- C7
\* C7: every run on an existing source directory has printed the final
\* summary when it returns.
C7_SummaryAlwaysPrinted ==
    (pc = "done" /\ source_exists) => summary.printed

\* ---------------------------------------------------------------- C8
\* C8: when the copy or move of a file fails, that file is counted as
\* skipped and not as processed and the walk goes on with the next entry;
\* the walk is left only after its last entry, for the final summary, and
\* then processed + skipped is the number of regular files it visited;
\* and a run in which a transfer failed does reach the final summary.
C8_FailureIsSkippedRunContinues ==
    /\ [](/\ skipped_files =
               Cardinality({ p \in DOMAIN outcome :
                               outcome[p].result \in {"failed", "unsupported"} })
          /\ processed_files =
               Cardinality({ p \in DOMAIN outcome :
                               outcome[p].result \in {"ok", "dry"} })
          /\ (Failed # {}) => pc \in {"walk", "done"}
          /\ (Failed # {} /\ pc = "done") =>
               /\ idx > Len(walk)
               /\ \A e \in Files(walk) : PathOf(e) \in DOMAIN outcome
               /\ summary.printed
               /\ summary.processed = processed_files
               /\ summary.skipped = skipped_files
               /\ processed_files + skipped_files
                    = Cardinality(DOMAIN outcome))
    /\ (Failed # {}) ~> (pc = "done" /\ summary.printed)

\* a finished run whose first transfer failed and whose second succeeded
C8_Witness ==
    /\ pc = "done"
    /\ summary.printed
    /\ Len(walk) = 2
    /\ PathOf(walk[1]) \in Failed
    /\ PathOf(walk[2]) \in Processed
    /\ processed_files = 1
    /\ skipped_files = 1

\* ---------------------------------------------------------------- C9
\* the run as it began: nothing counted, nothing asked, both trees intact
Untouched ==
    /\ srcFiles = InitialSource
    /\ [dirs |-> destDirs, files |-> destFiles] \in DestInits
    /\ outcome = <<>>
    /\ processed_files = 0
    /\ skipped_files = 0
    /\ ~prompted

\* C9: in a run that is not a dry run, when the free space can be read the
\* run is refused exactly when it is less than the total in copy mode, and
\* exactly when ten times it is less than the total in move mode; when it
\* cannot be read the run is not refused; a run with no bytes to transfer
\* is not refused; and a refused run stops with nothing counted, no prompt
\* shown and both trees as they were.
C9_SpaceGate ==
    [][ ~dry_run =>
        /\ (pc = "scan") => pc' \in {"space", "walk"}
        /\ (pc = "scan" /\ total_size' = 0) => pc' = "walk"
        /\ (pc = "space") =>
             /\ available_space'.finite <=> Root \in destDirs
             /\ available_space'.finite =>
                  /\ available_space'.bytes = availableBytes
                  /\ (pc' = "done") <=>
                       IF copy_mode THEN availableBytes < total_size
                       ELSE 10 * availableBytes < total_size
             /\ ~available_space'.finite => pc' # "done"
             /\ (pc' = "done") => Untouched' /\ ~summary'.printed
             /\ (pc' # "done") =>
                  pc' = IF skip_confirm THEN "walk" ELSE "confirm" ]_vars

\* a move of 10 bytes with 1 byte free, which is exactly the 10% required,
\* passed the gate
C9_Witness ==
    /\ ~dry_run
    /\ ~copy_mode
    /\ total_size = 10
    /\ available_space = Fin(1)
    /\ pc = "walk"
    /\ processed_files = 1

\* --------------------------------------------------------------- C10
\* C10: when a preview is followed by a run with --execute on the same
\* trees and no transfer fails, every file is placed at the path the
\* preview reported for it.
C10_DryRunReportsRealPlan ==
    (/\ run = 2
     /\ pc = "done"
     /\ summary.printed
     /\ ~dry_run
     /\ Failed = {})
    => \A p \in DOMAIN outcome :
         (/\ outcome[p].result = "ok"
          /\ p \in DOMAIN prevOutcome
          /\ prevOutcome[p].result = "dry")
         => outcome[p].dest = prevOutcome[p].dest

====
